---- MODULE Spec2Model ----
(***************************************************************************)
(* Ring buffers of ZhouyiGuan/ringbuffer.                                  *)
(*                                                                         *)
(*   src/src/ringbuffer.rs       inline-copy variant, calls take &mut self *)
(*                               (one call at a time): specification Spec  *)
(*   src/src/ringbuffer_ts.rs    atomic-scalar variant, one writer thread  *)
(*                               and one reader thread, one atomic access  *)
(*                               per step: specification SpecTS            *)
(*   src/src/ringbuffer_ts_g.rs  boxed-pointer variant, same threads, with *)
(*                               the heap of boxes: specification SpecG    *)
(***************************************************************************)
EXTENDS Integers, Sequences, FiniteSets, TLC

\* ------------------------------------------------------------------ bounds
\* capacity of the buffer under check (const generic N)
N == 3
\* longest input batch handed to n_write
MaxLen == 3
\* elements the writer thread may offer in total (SpecTS, SpecG)
MaxTotal == 6
\* boxes a Stack may allocate in total (SpecStack)
MaxNodes == 4

\* element values a caller may write; DefaultT is T::default()
Values == {1, 2}
DefaultT == 0
\* ptr::null_mut(), the pointer every slot of the boxed variant starts with
NullPtr == 0

\* the input batches: ascending runs through Values (the writer threads of the
\* tests offer 0, 1, 2, ...), of every length up to MaxLen, from every value
Ramp(v, n) == [i \in 1..n |-> ((v + i - 2) % Cardinality(Values)) + 1]
Batches == {Ramp(v, n) : v \in Values, n \in 0..MaxLen}

Min(a, b) == IF a <= b THEN a ELSE b

VARIABLES
    buffer,       \* slot array, indexed 0..N-1
    head,         \* AtomicUsize: next slot to read
    tail,         \* AtomicUsize: next slot to write
    used_count,   \* AtomicUsize: occupied slots
    result,       \* ringbuffer.rs: the caller's output Vec handed to n_read
    last,         \* ringbuffer.rs: the latest call (inputs, state before, return)
    prev,         \* ringbuffer.rs: the call before the latest
    panicked,     \* a call panicked (index out of range, usize underflow)
    w,            \* writer thread: where it is in n_write, and n_write's locals
    r,            \* reader thread: where it is in n_read, and n_read's locals
    accepted,     \* every element n_write has published, in order
    delivered,    \* every element n_read has returned, in order
    heap,         \* ringbuffer_ts_g.rs: every box allocated so far, by address
    ub,           \* ringbuffer_ts_g.rs: a null or released pointer was used
    prior,        \* ringbuffer_ts_g.rs: what each slot held before its last store
    ws,           \* ringbuffer_ts.rs with two writer threads: their records
    stk,          \* stack.rs: the Stack, its boxes and the position of its Drop
    eq            \* the three variants run side by side on the same calls

seqvars == <<result, last, prev>>
thrvars == <<w, r, accepted, delivered, heap, ub, prior>>
auxvars == <<ws, stk, eq>>
ringvars == <<buffer, head, tail, used_count, seqvars, panicked, thrvars>>
vars == <<buffer, head, tail, used_count, result, last, prev, panicked,
          w, r, accepted, delivered, heap, ub, prior, ws, stk, eq>>

Slots == 0..(N - 1)

\* ------------------------------------------------- src/src/ringbuffer.rs

\* RingBuffer::new
new ==
    /\ buffer = [k \in Slots |-> DefaultT]
    /\ head = 0
    /\ tail = 0
    /\ used_count = 0

\* usize addition as the code writes it for the no-wrap index update; both
\* operands are at most N, so the sum never reaches the width of usize
wrapping_add(a, b) == a + b

\* N - self.used_count.load(Relaxed): the free space n_write computes
FreeBug(used) == N - used + 1
Free(used) == N - used

\* min(data.len(), N - used_count)
WriteCountBug(len, used) == Min(len, N)
WriteCount(len, used) == Min(len, Free(used))

\* used_count.fetch_add(n, Release) and used_count.fetch_sub(n, Release): the
\* value stored
fetch_addBug(cur, n) == cur - n
fetch_add(cur, n) == cur + n
fetch_subBug(cur, n) == cur
fetch_sub(cur, n) == cur - n

\* dst[lo..lo+Len(src)].copy_from_slice(src)
CopyFromSlice(dst, lo, src) ==
    [k \in DOMAIN dst |->
        IF lo <= k /\ k < lo + Len(src) THEN src[k - lo + 1] ELSE dst[k]]

\* &buf[lo..hi] as a sequence
Slice(buf, lo, hi) == [i \in 1..(hi - lo) |-> buf[lo + i - 1]]

\* &data[lo..hi] of a Vec (0-based, hi exclusive)
VecSlice(data, lo, hi) == SubSeq(data, lo + 1, hi)

\* new_tail of n_write, both branches
NewTailBug(t, write_count) ==
    IF write_count <= N - t
    THEN wrapping_add(t, write_count) + 1
    ELSE write_count - (N - t)
NewTail(t, write_count) ==
    IF write_count <= N - t
    THEN wrapping_add(t, write_count)
    ELSE write_count - (N - t)

\* copy_from_slice panics unless destination and source have the same length
SameLen(lo, hi, src) == hi - lo = Len(src)

\* the wrap branch of n_write panics in its second copy_from_slice when
\* &data[(N - tail)..], all the rest of data, is longer than
\* self.buffer[..new_tail]: that is, when write_count < data.len()
WritePanics(t, data, write_count) ==
    /\ write_count > N - t
    /\ ~SameLen(0, NewTail(t, write_count), VecSlice(data, N - t, Len(data)))

\* the slot array after the copies of n_write, both branches; a second copy
\* that panics leaves the first one done
WriteSlotsBug(buf, t, data, write_count) ==
    IF write_count <= N - t
    THEN CopyFromSlice(buf, t, VecSlice(data, 0, write_count))
    ELSE IF WritePanics(t, data, write_count)
    THEN CopyFromSlice(buf, t, VecSlice(data, 0, N - t))
    ELSE CopyFromSlice(CopyFromSlice(buf, t, VecSlice(data, 0, N - t)),
                       0, VecSlice(data, 0, Len(data) - (N - t)))
WriteSlots(buf, t, data, write_count) ==
    IF write_count <= N - t
    THEN CopyFromSlice(buf, t, VecSlice(data, 0, write_count))
    ELSE IF WritePanics(t, data, write_count)
    THEN CopyFromSlice(buf, t, VecSlice(data, 0, N - t))
    ELSE CopyFromSlice(CopyFromSlice(buf, t, VecSlice(data, 0, N - t)),
                       0, VecSlice(data, N - t, Len(data)))

\* new_head of n_read, both branches
NewHead(h, read_count) ==
    IF read_count <= N - h
    THEN wrapping_add(h, read_count)
    ELSE read_count - (N - h)

\* what n_read appends to data after data.clear(), both branches
ReadSlots(buf, h, read_count) ==
    IF read_count <= N - h
    THEN Slice(buf, h, h + read_count)
    ELSE Slice(buf, h, N) \o Slice(buf, 0, read_count - (N - h))

\* data.clear()
ClearBug(data) == data
Clear(data) == <<>>

Snapshot == [buffer |-> buffer, head |-> head, tail |-> tail,
             used_count |-> used_count, result |-> result]

NoCall == [op |-> "none", data |-> <<>>, ret |-> 0,
           pre |-> [buffer |-> [k \in Slots |-> DefaultT], head |-> 0, tail |-> 0,
                    used_count |-> 0, result |-> <<>>]]

\* the occupied region [head, head + used_count) mod N, oldest element first
Occupied(buf, h, used) == [i \in 1..used |-> buf[(h + i - 1) % N]]

\* what is kept of the call before the latest: its kind, the elements it
\* transferred and the occupied region it started from
Summary(call) ==
    [op |-> call.op,
     len |-> Len(call.data),
     moved |-> IF call.op = "write" THEN SubSeq(call.data, 1, call.ret) ELSE <<>>,
     ret |-> call.ret,
     occ |-> Occupied(call.pre.buffer, call.pre.head, call.pre.used_count)]

\* RingBuffer::n_write(&mut self, data)
n_write(data) ==
    /\ ~panicked
    /\ UNCHANGED <<thrvars, auxvars>>
    /\ prev' = Summary(last)
    /\ IF used_count > N \/ tail > N
       THEN /\ panicked' = TRUE
            /\ last' = [op |-> "write", data |-> data, ret |-> 0, pre |-> Snapshot]
            /\ UNCHANGED <<buffer, head, tail, used_count, result>>
       ELSE IF Free(used_count) = 0
       THEN /\ last' = [op |-> "write", data |-> data, ret |-> 0, pre |-> Snapshot]
            /\ UNCHANGED <<buffer, head, tail, used_count, result, panicked>>
       ELSE LET write_count == WriteCount(Len(data), used_count)
                t == tail
            IN  IF WritePanics(t, data, write_count)
                THEN /\ buffer' = WriteSlots(buffer, t, data, write_count)
                     /\ panicked' = TRUE
                     /\ last' = [op |-> "write", data |-> data, ret |-> 0,
                                 pre |-> Snapshot]
                     /\ UNCHANGED <<head, tail, used_count, result>>
                ELSE /\ buffer' = WriteSlots(buffer, t, data, write_count)
                     /\ used_count' = fetch_add(used_count, write_count)
                     /\ tail' = NewTail(t, write_count)
                     /\ last' = [op |-> "write", data |-> data,
                                 ret |-> write_count, pre |-> Snapshot]
                     /\ UNCHANGED <<head, result, panicked>>

\* RingBuffer::n_read(&mut self, data), data being the caller's Vec `result`
n_read ==
    /\ ~panicked
    /\ UNCHANGED <<thrvars, auxvars>>
    /\ prev' = Summary(last)
    /\ LET read_count == used_count
           h == head
       IN IF read_count = 0
          THEN /\ result' = Clear(result)
               /\ last' = [op |-> "read", data |-> <<>>, ret |-> 0, pre |-> Snapshot]
               /\ UNCHANGED <<buffer, head, tail, used_count, panicked>>
          ELSE IF h > N \/ read_count > N
          THEN /\ panicked' = TRUE
               /\ result' = Clear(result)
               /\ last' = [op |-> "read", data |-> <<>>, ret |-> 0, pre |-> Snapshot]
               /\ UNCHANGED <<buffer, head, tail, used_count>>
          ELSE /\ result' = Clear(result) \o ReadSlots(buffer, h, read_count)
               /\ used_count' = fetch_sub(used_count, read_count)
               /\ head' = NewHead(h, read_count)
               /\ last' = [op |-> "read", data |-> <<>>, ret |-> read_count,
                           pre |-> Snapshot]
               /\ UNCHANGED <<buffer, tail, panicked>>

\* the caller's output Vec before the first n_read: empty, or prior contents
\* (test::basics_with_struct starts from vec![s2; 8])
StaleResults == {<<>>, <<2, 2>>}

\* a thread that is not inside a call
Idle == [pc |-> "idle", data |-> <<>>, count |-> 0, at |-> 0, new_at |-> 0,
         i |-> 0, ret |-> 0]

\* two writer threads that are not inside a call; nothing has gone wrong
NoWriters == [th |-> [self \in 1..2 |-> Idle], concurrent |-> FALSE,
              raced |-> FALSE, clobbered |-> FALSE]

\* the variables a specification leaves alone, as they are at the start
\* no Stack has been made; no side-by-side run is going on
NoStack == [pc |-> "none"]
NoLockstep == [pc |-> "none"]

AuxInit == ws = NoWriters /\ stk = NoStack /\ eq = NoLockstep

Init ==
    /\ AuxInit
    /\ new
    /\ result \in StaleResults
    /\ last = NoCall
    /\ prev = Summary(NoCall)
    /\ panicked = FALSE
    /\ w = Idle
    /\ r = Idle
    /\ accepted = <<>>
    /\ delivered = <<>>
    /\ heap = <<>>
    /\ ub = FALSE
    /\ prior = [k \in Slots |-> NullPtr]

Next ==
    \/ \E data \in Batches : n_write(data)
    \/ n_read

Spec == Init /\ [][Next]_vars

\* ---------------------------------------------- src/src/ringbuffer_ts.rs
\* One writer thread and one reader thread share the buffer through
\* Arc<RingBuffer>. Each action is one atomic access to a shared cell together
\* with the thread-local computation up to the next access. In a thread record,
\* count is write_count / read_count, at is the local tail / head, new_at is
\* new_tail / new_head, i counts the iterations of the current loop done so far.

\* min(data.len(), N - used_count.load(Relaxed))
ts_write_countBug(len, used) == Min(len, N)
ts_write_count(len, used) == Min(len, N - used)

\* index into data of the element the second loop of the wrap branch stores
ts_wrap_srcBug(t, i) == i
ts_wrap_src(t, i) == (N - t) + i

\* the value used_count.fetch_sub(read_count, Release) stores
ts_fetch_subBug(cur, n) == cur - n + 1
ts_fetch_sub(cur, n) == cur - n

\* new_tail / new_head: the no-wrap branch adds the count, the wrap branch
\* subtracts what fitted before the end of the array
ts_new_at(at, count) ==
    IF count <= N - at THEN wrapping_add(at, count) ELSE count - (N - at)

\* the writer thread's Vec handed to n_write; the bound stops the logs growing
ts_offer(data) == Len(accepted) + Len(data) <= MaxTotal

\* n_write, first load of used_count and the buffer-full return
ts_write_L34(data) ==
    /\ ~panicked
    /\ w.pc = "idle"
    /\ ts_offer(data)
    /\ IF used_count > N
       THEN panicked' = TRUE /\ UNCHANGED w
       ELSE /\ UNCHANGED panicked
            /\ w' = IF N - used_count = 0
                    THEN [Idle EXCEPT !.data = data, !.ret = 0]
                    ELSE [Idle EXCEPT !.pc = "L38", !.data = data]
    /\ UNCHANGED <<buffer, head, tail, used_count, seqvars, auxvars, r, accepted, delivered, heap, ub, prior>>

\* n_write, second load of used_count: write_count
ts_write_L38Bug ==
    /\ ~panicked
    /\ w.pc = "L38"
    /\ N - used_count >= Len(w.data)
    /\ UNCHANGED panicked
    /\ w' = [w EXCEPT !.pc = "L39",
                      !.count = ts_write_count(Len(w.data), used_count)]
    /\ UNCHANGED <<buffer, head, tail, used_count, seqvars, auxvars, r, accepted, delivered,
                   heap, ub, prior>>
ts_write_L38 ==
    /\ ~panicked
    /\ w.pc = "L38"
    /\ IF used_count > N
       THEN panicked' = TRUE /\ UNCHANGED w
       ELSE /\ UNCHANGED panicked
            /\ w' = [w EXCEPT !.pc = "L39",
                              !.count = ts_write_count(Len(w.data), used_count)]
    /\ UNCHANGED <<buffer, head, tail, used_count, seqvars, auxvars, r, accepted, delivered, heap, ub, prior>>

\* n_write, load of tail and the choice of branch
ts_write_L39 ==
    /\ ~panicked
    /\ w.pc = "L39"
    /\ IF tail > N
       THEN panicked' = TRUE /\ UNCHANGED w
       ELSE /\ UNCHANGED panicked
            /\ w' = [w EXCEPT
                      !.at = tail,
                      !.i = 0,
                      !.new_at = ts_new_at(tail, w.count),
                      !.pc = IF w.count <= N - tail
                             THEN (IF w.count = 0 THEN "L58" ELSE "L43")
                             ELSE (IF N - tail = 0 THEN "L54" ELSE "L51")]
    /\ UNCHANGED <<buffer, head, tail, used_count, seqvars, auxvars, r, accepted, delivered, heap, ub, prior>>

\* n_write, no-wrap branch: one store of the loop over 0..write_count
ts_write_L43 ==
    /\ ~panicked
    /\ w.pc = "L43"
    /\ IF w.at + w.i \in Slots
       THEN /\ buffer' = [buffer EXCEPT ![w.at + w.i] = w.data[w.i + 1]]
            /\ w' = [w EXCEPT !.i = w.i + 1,
                              !.pc = IF w.i + 1 = w.count THEN "L58" ELSE "L43"]
            /\ UNCHANGED panicked
       ELSE panicked' = TRUE /\ UNCHANGED <<buffer, w>>
    /\ UNCHANGED <<head, tail, used_count, seqvars, auxvars, r, accepted, delivered, heap, ub, prior>>

\* n_write, wrap branch: one store of the loop over 0..(N - tail)
ts_write_L51 ==
    /\ ~panicked
    /\ w.pc = "L51"
    /\ IF w.at + w.i \in Slots
       THEN /\ buffer' = [buffer EXCEPT ![w.at + w.i] = w.data[w.i + 1]]
            /\ w' = IF w.i + 1 = N - w.at
                    THEN [w EXCEPT !.i = 0, !.pc = "L54"]
                    ELSE [w EXCEPT !.i = w.i + 1]
            /\ UNCHANGED panicked
       ELSE panicked' = TRUE /\ UNCHANGED <<buffer, w>>
    /\ UNCHANGED <<head, tail, used_count, seqvars, auxvars, r, accepted, delivered, heap, ub, prior>>

\* n_write, wrap branch: one store of the loop over 0..new_tail
ts_write_L54 ==
    /\ ~panicked
    /\ w.pc = "L54"
    /\ IF w.i \in Slots /\ ts_wrap_src(w.at, w.i) + 1 \in DOMAIN w.data
       THEN /\ buffer' = [buffer EXCEPT ![w.i] = w.data[ts_wrap_src(w.at, w.i) + 1]]
            /\ w' = [w EXCEPT !.i = w.i + 1,
                              !.pc = IF w.i + 1 = w.new_at THEN "L58" ELSE "L54"]
            /\ UNCHANGED panicked
       ELSE panicked' = TRUE /\ UNCHANGED <<buffer, w>>
    /\ UNCHANGED <<head, tail, used_count, seqvars, auxvars, r, accepted, delivered, heap, ub, prior>>

\* n_write, used_count.fetch_add(write_count, Release): the batch is published
ts_write_L58 ==
    /\ ~panicked
    /\ w.pc = "L58"
    /\ used_count' = fetch_add(used_count, w.count)
    /\ accepted' = accepted \o SubSeq(w.data, 1, w.count)
    /\ w' = [w EXCEPT !.pc = "L59"]
    /\ UNCHANGED <<buffer, head, tail, seqvars, auxvars, panicked, r, delivered, heap, ub, prior>>

\* n_write, tail.store(new_tail, Release) and the return of write_count
ts_write_L59 ==
    /\ ~panicked
    /\ w.pc = "L59"
    /\ tail' = w.new_at
    /\ w' = [Idle EXCEPT !.data = w.data, !.ret = w.count]
    /\ UNCHANGED <<buffer, head, used_count, seqvars, auxvars, panicked, r, accepted, delivered, heap, ub, prior>>

\* n_read, data.clear(), the load of used_count and the buffer-empty return
ts_read_L64Bug ==
    /\ ~panicked
    /\ r.pc = "idle"
    /\ r' = [Idle EXCEPT !.data = Clear(r.data), !.ret = 0]
    /\ UNCHANGED <<buffer, head, tail, used_count, seqvars, auxvars, panicked, w,
                   accepted, delivered, heap, ub, prior>>
ts_read_L64 ==
    /\ ~panicked
    /\ r.pc = "idle"
    /\ r' = IF used_count = 0
            THEN [Idle EXCEPT !.data = Clear(r.data), !.ret = 0]
            ELSE [Idle EXCEPT !.pc = "L70", !.data = Clear(r.data),
                              !.count = used_count]
    /\ UNCHANGED <<buffer, head, tail, used_count, seqvars, auxvars, panicked, w,
                   accepted, delivered, heap, ub, prior>>

\* n_read, load of head and the choice of branch
ts_read_L70 ==
    /\ ~panicked
    /\ r.pc = "L70"
    /\ IF head > N
       THEN panicked' = TRUE /\ UNCHANGED r
       ELSE /\ UNCHANGED panicked
            /\ r' = [r EXCEPT
                      !.at = head,
                      !.i = 0,
                      !.new_at = ts_new_at(head, r.count),
                      !.pc = IF r.count <= N - head THEN "L74"
                             ELSE (IF N - head = 0 THEN "L83" ELSE "L80")]
    /\ UNCHANGED <<buffer, head, tail, used_count, seqvars, auxvars, w, accepted, delivered, heap, ub, prior>>

\* n_read, no-wrap branch: one load of the loop over head..(head + read_count)
ts_read_L74 ==
    /\ ~panicked
    /\ r.pc = "L74"
    /\ IF r.at + r.i \in Slots
       THEN /\ r' = [r EXCEPT !.data = Append(r.data, buffer[r.at + r.i]),
                              !.i = r.i + 1,
                              !.pc = IF r.i + 1 = r.count THEN "L87" ELSE "L74"]
            /\ UNCHANGED panicked
       ELSE panicked' = TRUE /\ UNCHANGED r
    /\ UNCHANGED <<buffer, head, tail, used_count, seqvars, auxvars, w, accepted, delivered, heap, ub, prior>>

\* n_read, wrap branch: one load of the loop over head..N
ts_read_L80 ==
    /\ ~panicked
    /\ r.pc = "L80"
    /\ IF r.at + r.i \in Slots
       THEN /\ r' = IF r.i + 1 = N - r.at
                    THEN [r EXCEPT !.data = Append(r.data, buffer[r.at + r.i]),
                                   !.i = 0, !.pc = "L83"]
                    ELSE [r EXCEPT !.data = Append(r.data, buffer[r.at + r.i]),
                                   !.i = r.i + 1]
            /\ UNCHANGED panicked
       ELSE panicked' = TRUE /\ UNCHANGED r
    /\ UNCHANGED <<buffer, head, tail, used_count, seqvars, auxvars, w, accepted, delivered, heap, ub, prior>>

\* n_read, wrap branch: one load of the loop over 0..new_head
ts_read_L83 ==
    /\ ~panicked
    /\ r.pc = "L83"
    /\ IF r.i \in Slots
       THEN /\ r' = [r EXCEPT !.data = Append(r.data, buffer[r.i]),
                              !.i = r.i + 1,
                              !.pc = IF r.i + 1 = r.new_at THEN "L87" ELSE "L83"]
            /\ UNCHANGED panicked
       ELSE panicked' = TRUE /\ UNCHANGED r
    /\ UNCHANGED <<buffer, head, tail, used_count, seqvars, auxvars, w, accepted, delivered, heap, ub, prior>>

\* n_read, used_count.fetch_sub(read_count, Release)
ts_read_L87 ==
    /\ ~panicked
    /\ r.pc = "L87"
    /\ used_count' = ts_fetch_sub(used_count, r.count)
    /\ r' = [r EXCEPT !.pc = "L88"]
    /\ UNCHANGED <<buffer, head, tail, seqvars, auxvars, panicked, w, accepted, delivered, heap, ub, prior>>

\* n_read, head.store(new_head, Release) and the return of read_count with
\* the batch in data
ts_read_L88 ==
    /\ ~panicked
    /\ r.pc = "L88"
    /\ head' = r.new_at
    /\ delivered' = delivered \o r.data
    /\ r' = [Idle EXCEPT !.data = r.data, !.ret = r.count]
    /\ UNCHANGED <<buffer, tail, used_count, seqvars, auxvars, panicked, w, accepted, heap, ub, prior>>

\* the writer thread and the reader thread of test::multi_thread_general
ts_writer ==
    \/ \E data \in Batches : ts_write_L34(data)
    \/ ts_write_L38
    \/ ts_write_L39
    \/ ts_write_L43
    \/ ts_write_L51
    \/ ts_write_L54
    \/ ts_write_L58
    \/ ts_write_L59

ts_reader ==
    \/ ts_read_L64
    \/ ts_read_L70
    \/ ts_read_L74
    \/ ts_read_L80
    \/ ts_read_L83
    \/ ts_read_L87
    \/ ts_read_L88

InitTS ==
    /\ AuxInit
    /\ new
    /\ result = <<>>
    /\ last = NoCall
    /\ prev = Summary(NoCall)
    /\ panicked = FALSE
    /\ w = Idle
    /\ r \in {[Idle EXCEPT !.data = stale] : stale \in StaleResults}
    /\ accepted = <<>>
    /\ delivered = <<>>
    /\ heap = <<>>
    /\ ub = FALSE
    /\ prior = [k \in Slots |-> NullPtr]

NextTS == ts_writer \/ ts_reader

SpecTS == InitTS /\ [][NextTS]_vars

\* test::multi_thread_general runs n_read in a loop on a thread of its own: the
\* scheduler does not leave the reader's next access undone forever
FairReader == WF_vars(ts_reader)

\* the same for the loop of the writer thread
FairWriter == WF_vars(ts_writer)

SpecTSFair == SpecTS /\ FairReader

\* -------------------------------------------- src/src/ringbuffer_ts_g.rs
\* The same two threads. A slot holds a pointer: NullPtr, or the address of a
\* box, which is its position in heap. A box is live from Box::into_raw until
\* Box::from_raw takes it back and drops it. prior[k] is the pointer slot k held
\* before the latest store to it. Using a null or released pointer is undefined
\* behaviour: ub is set, and nothing more is said about that run.

\* RingBuffer::new: every slot is ptr::null_mut()
g_new ==
    /\ buffer = [k \in Slots |-> NullPtr]
    /\ head = 0
    /\ tail = 0
    /\ used_count = 0

\* Box::into_raw(Box::new(v)): the heap with the new box; its address is the
\* new length of the heap
g_box_new(h, v) == Append(h, [val |-> v, live |-> TRUE])

\* the pointer refers to a box that has not been released
g_valid(h, p) == p \in DOMAIN h /\ h[p].live

\* Box::from_raw(p) dropped at the end of the unsafe block: the box is released
g_from_raw(h, p) == [h EXCEPT ![p].live = FALSE]

\* the heap after n_read has copied the value out of the box at p: the no-wrap
\* loop takes the box back with Box::from_raw and drops it, the two loops of
\* the wrap branch dereference the raw pointer and leave the box alone
g_after_read(h, p, wrapped) == IF wrapped THEN h ELSE g_from_raw(h, p)

\* min(data.len(), N - used_count.load(Relaxed))
g_write_count(len, used) == Min(len, N - used)

\* new_tail / new_head of the two branches
g_new_at(at, count) ==
    IF count <= N - at THEN wrapping_add(at, count) ELSE count - (N - at)

\* n_write, first load of used_count and the buffer-full return
g_write_L37(data) ==
    /\ ~panicked /\ ~ub
    /\ w.pc = "idle"
    /\ ts_offer(data)
    /\ IF used_count > N
       THEN panicked' = TRUE /\ UNCHANGED w
       ELSE /\ UNCHANGED panicked
            /\ w' = IF N - used_count = 0
                    THEN [Idle EXCEPT !.data = data, !.ret = 0]
                    ELSE [Idle EXCEPT !.pc = "L41", !.data = data]
    /\ UNCHANGED <<buffer, head, tail, used_count, seqvars, auxvars, r, accepted, delivered,
                   heap, ub, prior>>

\* n_write, second load of used_count: write_count
g_write_L41 ==
    /\ ~panicked /\ ~ub
    /\ w.pc = "L41"
    /\ IF used_count > N
       THEN panicked' = TRUE /\ UNCHANGED w
       ELSE /\ UNCHANGED panicked
            /\ w' = [w EXCEPT !.pc = "L42",
                              !.count = g_write_count(Len(w.data), used_count)]
    /\ UNCHANGED <<buffer, head, tail, used_count, seqvars, auxvars, r, accepted, delivered,
                   heap, ub, prior>>

\* n_write, load of tail and the choice of branch
g_write_L42 ==
    /\ ~panicked /\ ~ub
    /\ w.pc = "L42"
    /\ IF tail > N
       THEN panicked' = TRUE /\ UNCHANGED w
       ELSE /\ UNCHANGED panicked
            /\ w' = [w EXCEPT
                      !.at = tail,
                      !.i = 0,
                      !.new_at = g_new_at(tail, w.count),
                      !.pc = IF w.count <= N - tail
                             THEN (IF w.count = 0 THEN "L65" ELSE "L48")
                             ELSE (IF N - tail = 0 THEN "L61" ELSE "L56")]
    /\ UNCHANGED <<buffer, head, tail, used_count, seqvars, auxvars, r, accepted, delivered,
                   heap, ub, prior>>

\* n_write, no-wrap branch: one iteration of the loop over 0..write_count,
\* a new box and the store of its address
g_write_L48 ==
    /\ ~panicked /\ ~ub
    /\ w.pc = "L48"
    /\ IF w.at + w.i \in Slots
       THEN /\ heap' = g_box_new(heap, w.data[w.i + 1])
            /\ buffer' = [buffer EXCEPT ![w.at + w.i] = Len(heap')]
            /\ prior' = [prior EXCEPT ![w.at + w.i] = buffer[w.at + w.i]]
            /\ w' = [w EXCEPT !.i = w.i + 1,
                              !.pc = IF w.i + 1 = w.count THEN "L65" ELSE "L48"]
            /\ UNCHANGED panicked
       ELSE panicked' = TRUE /\ UNCHANGED <<buffer, w, heap, prior>>
    /\ UNCHANGED <<head, tail, used_count, seqvars, auxvars, r, accepted, delivered, ub>>

\* n_write, wrap branch: one iteration of the loop over 0..(N - tail)
g_write_L56 ==
    /\ ~panicked /\ ~ub
    /\ w.pc = "L56"
    /\ IF w.at + w.i \in Slots
       THEN /\ heap' = g_box_new(heap, w.data[w.i + 1])
            /\ buffer' = [buffer EXCEPT ![w.at + w.i] = Len(heap')]
            /\ prior' = [prior EXCEPT ![w.at + w.i] = buffer[w.at + w.i]]
            /\ w' = IF w.i + 1 = N - w.at
                    THEN [w EXCEPT !.i = 0, !.pc = "L61"]
                    ELSE [w EXCEPT !.i = w.i + 1]
            /\ UNCHANGED panicked
       ELSE panicked' = TRUE /\ UNCHANGED <<buffer, w, heap, prior>>
    /\ UNCHANGED <<head, tail, used_count, seqvars, auxvars, r, accepted, delivered, ub>>

\* n_write, wrap branch: one iteration of the loop over 0..new_tail
g_write_L61 ==
    /\ ~panicked /\ ~ub
    /\ w.pc = "L61"
    /\ IF w.i \in Slots /\ (N - w.at) + w.i + 1 \in DOMAIN w.data
       THEN /\ heap' = g_box_new(heap, w.data[(N - w.at) + w.i + 1])
            /\ buffer' = [buffer EXCEPT ![w.i] = Len(heap')]
            /\ prior' = [prior EXCEPT ![w.i] = buffer[w.i]]
            /\ w' = [w EXCEPT !.i = w.i + 1,
                              !.pc = IF w.i + 1 = w.new_at THEN "L65" ELSE "L61"]
            /\ UNCHANGED panicked
       ELSE panicked' = TRUE /\ UNCHANGED <<buffer, w, heap, prior>>
    /\ UNCHANGED <<head, tail, used_count, seqvars, auxvars, r, accepted, delivered, ub>>

\* n_write, used_count.fetch_add(write_count, Release): the batch is published
g_write_L65 ==
    /\ ~panicked /\ ~ub
    /\ w.pc = "L65"
    /\ used_count' = fetch_add(used_count, w.count)
    /\ accepted' = accepted \o SubSeq(w.data, 1, w.count)
    /\ w' = [w EXCEPT !.pc = "L66"]
    /\ UNCHANGED <<buffer, head, tail, seqvars, auxvars, panicked, r, delivered, heap, ub, prior>>

\* n_write, tail.store(new_tail, Release) and the return of write_count
g_write_L66 ==
    /\ ~panicked /\ ~ub
    /\ w.pc = "L66"
    /\ tail' = w.new_at
    /\ w' = [Idle EXCEPT !.data = w.data, !.ret = w.count]
    /\ UNCHANGED <<buffer, head, used_count, seqvars, auxvars, panicked, r, accepted,
                   delivered, heap, ub, prior>>

\* n_read, data.clear(), the load of used_count and the buffer-empty return
g_read_L71 ==
    /\ ~panicked /\ ~ub
    /\ r.pc = "idle"
    /\ r' = IF used_count = 0
            THEN [Idle EXCEPT !.data = Clear(r.data), !.ret = 0]
            ELSE [Idle EXCEPT !.pc = "L77", !.data = Clear(r.data),
                              !.count = used_count]
    /\ UNCHANGED <<buffer, head, tail, used_count, seqvars, auxvars, panicked, w,
                   accepted, delivered, heap, ub, prior>>

\* n_read, load of head and the choice of branch
g_read_L77 ==
    /\ ~panicked /\ ~ub
    /\ r.pc = "L77"
    /\ IF head > N
       THEN panicked' = TRUE /\ UNCHANGED r
       ELSE /\ UNCHANGED panicked
            /\ r' = [r EXCEPT
                      !.at = head,
                      !.i = 0,
                      !.new_at = g_new_at(head, r.count),
                      !.pc = IF r.count <= N - head THEN "L82"
                             ELSE (IF N - head = 0 THEN "L97" ELSE "L92")]
    /\ UNCHANGED <<buffer, head, tail, used_count, seqvars, auxvars, w, accepted, delivered,
                   heap, ub, prior>>

\* what buffer[idx].load(Relaxed) may return in the reader thread. The load
\* that told the reader the slot is filled, used_count.load(Relaxed), is not an
\* Acquire load, so it does not synchronise with the writer's
\* fetch_add(Release): the writer's latest store to the slot need not be
\* visible yet, and the load may still return the pointer the slot held
\* before it (a sequentially consistent load would return buffer[idx] alone)
g_load(idx) == {buffer[idx], prior[idx]}

\* one element copied out of the box the slot idx points to; a null or released
\* pointer is undefined behaviour: any value may come out
g_copy_out(idx, wrapped, next_pc, next_i) ==
    IF idx \in Slots
    THEN /\ UNCHANGED panicked
         /\ \E p \in g_load(idx) :
              IF g_valid(heap, p)
              THEN /\ r' = [r EXCEPT !.data = Append(r.data, heap[p].val),
                                     !.i = next_i, !.pc = next_pc]
                   /\ heap' = g_after_read(heap, p, wrapped)
                   /\ UNCHANGED ub
              ELSE /\ \E v \in Values \cup {DefaultT} :
                          r' = [r EXCEPT !.data = Append(r.data, v),
                                         !.i = next_i, !.pc = next_pc]
                   /\ ub' = TRUE
                   /\ UNCHANGED heap
    ELSE panicked' = TRUE /\ UNCHANGED <<r, heap, ub>>

\* n_read, no-wrap branch: one iteration of the loop over
\* head..(head + read_count): load, Box::from_raw, push, drop
g_read_L82 ==
    /\ ~panicked /\ ~ub
    /\ r.pc = "L82"
    /\ g_copy_out(r.at + r.i, FALSE,
                  IF r.i + 1 = r.count THEN "L102" ELSE "L82", r.i + 1)
    /\ UNCHANGED <<buffer, head, tail, used_count, seqvars, auxvars, w, accepted, delivered, prior>>

\* n_read, wrap branch: one iteration of the loop over head..N: load, push of
\* the dereferenced raw pointer
g_read_L92 ==
    /\ ~panicked /\ ~ub
    /\ r.pc = "L92"
    /\ g_copy_out(r.at + r.i, TRUE,
                  IF r.i + 1 = N - r.at THEN "L97" ELSE "L92",
                  IF r.i + 1 = N - r.at THEN 0 ELSE r.i + 1)
    /\ UNCHANGED <<buffer, head, tail, used_count, seqvars, auxvars, w, accepted, delivered, prior>>

\* n_read, wrap branch: one iteration of the loop over 0..new_head: load, push
\* of the dereferenced raw pointer
g_read_L97 ==
    /\ ~panicked /\ ~ub
    /\ r.pc = "L97"
    /\ g_copy_out(r.i, TRUE,
                  IF r.i + 1 = r.new_at THEN "L102" ELSE "L97", r.i + 1)
    /\ UNCHANGED <<buffer, head, tail, used_count, seqvars, auxvars, w, accepted, delivered, prior>>

\* n_read, used_count.fetch_sub(read_count, Release)
g_read_L102 ==
    /\ ~panicked /\ ~ub
    /\ r.pc = "L102"
    /\ used_count' = fetch_sub(used_count, r.count)
    /\ r' = [r EXCEPT !.pc = "L103"]
    /\ UNCHANGED <<buffer, head, tail, seqvars, auxvars, panicked, w, accepted, delivered,
                   heap, ub, prior>>

\* n_read, head.store(new_head, Release) and the return of read_count with
\* the batch in data
g_read_L103 ==
    /\ ~panicked /\ ~ub
    /\ r.pc = "L103"
    /\ head' = r.new_at
    /\ delivered' = delivered \o r.data
    /\ r' = [Idle EXCEPT !.data = r.data, !.ret = r.count]
    /\ UNCHANGED <<buffer, tail, used_count, seqvars, auxvars, panicked, w, accepted,
                   heap, ub, prior>>

\* the RingBuffer is dropped once no thread holds it any more: the struct has
\* no Drop impl, so the fields are dropped one by one, and dropping an
\* AtomicPtr or an AtomicUsize releases nothing
g_drop ==
    /\ ~panicked /\ ~ub
    /\ w.pc = "idle"
    /\ r.pc = "idle"
    /\ w' = [w EXCEPT !.pc = "dropped"]
    /\ r' = [r EXCEPT !.pc = "dropped"]
    /\ UNCHANGED <<buffer, head, tail, used_count, seqvars, auxvars, panicked, accepted,
                   delivered, heap, ub, prior>>

\* the writer thread and the reader thread of test::multi_thread_general
g_writer ==
    \/ \E data \in Batches : g_write_L37(data)
    \/ g_write_L41
    \/ g_write_L42
    \/ g_write_L48
    \/ g_write_L56
    \/ g_write_L61
    \/ g_write_L65
    \/ g_write_L66

g_reader ==
    \/ g_read_L71
    \/ g_read_L77
    \/ g_read_L82
    \/ g_read_L92
    \/ g_read_L97
    \/ g_read_L102
    \/ g_read_L103

InitG ==
    /\ AuxInit
    /\ g_new
    /\ result = <<>>
    /\ last = NoCall
    /\ prev = Summary(NoCall)
    /\ panicked = FALSE
    /\ w = Idle
    /\ r = Idle
    /\ accepted = <<>>
    /\ delivered = <<>>
    /\ heap = <<>>
    /\ ub = FALSE
    /\ prior = [k \in Slots |-> NullPtr]

NextG == g_writer \/ g_reader \/ g_drop

SpecG == InitG /\ [][NextG]_vars

\* ------------------------- src/src/ringbuffer_ts.rs with two writer threads
\* n_write takes &self and RingBuffer is Sync, so nothing in the types stops a
\* second thread from calling n_write on the same Arc<RingBuffer>. The actions
\* below are the statements of n_write run by writer thread self (1 or 2);
\* ws.th[self] is its thread record. ws.concurrent, ws.raced and ws.clobbered
\* record what has happened so far: a call began while the other writer was
\* inside one; a writer took its write_count load while the other was between
\* its own write_count load and its fetch_add; a store landed on a slot that
\* holds a published element no reader has taken.

Other(self) == 3 - self

\* the slots holding published, unread elements
mw_occupied == {(head + k) % N : k \in 0..(Min(used_count, N) - 1)}

\* pcs of a writer that has loaded used_count for write_count and not yet
\* done its fetch_add
mw_uncommitted == {"L39", "L43", "L51", "L54", "L58"}

\* min(data.len(), N - used_count.load(Relaxed)); when used_count > N a build
\* without overflow checks wraps N - used_count to 2^64 - (used_count - N),
\* which is more than any Vec length, so the minimum is data.len()
mw_write_countBug(len, used) == len
mw_write_count(len, used) == IF used <= N THEN Min(len, N - used) ELSE len

\* the Vec writer self hands to n_write: its own value, any length; no reader
\* runs here, so used_count is the number of elements accepted so far and the
\* bound on it stops the counter growing for ever
mw_batches(self) == {[i \in 1..n |-> self] : n \in 0..MaxLen}
mw_offer(data) == used_count + Len(data) <= MaxTotal

\* what N - used_count does when used_count > N: panic or wrap
Builds == {"debug", "release"}

\* n_write, first load of used_count and the buffer-full return
mw_write_L34(self, data) ==
    /\ ~panicked
    /\ ws.th[self].pc = "idle"
    /\ mw_offer(data)
    /\ \E build \in Builds :
         IF used_count > N /\ build = "debug"
         THEN panicked' = TRUE /\ UNCHANGED ws
         ELSE /\ UNCHANGED panicked
              /\ ws' = [ws EXCEPT
                         !.th[self] =
                             IF used_count = N
                             THEN [Idle EXCEPT !.data = data, !.ret = 0]
                             ELSE [Idle EXCEPT !.pc = "L38", !.data = data],
                         !.concurrent = @ \/ ws.th[Other(self)].pc # "idle"]
    /\ UNCHANGED <<buffer, head, tail, used_count, seqvars, thrvars, stk, eq>>

\* n_write, second load of used_count: write_count
mw_write_L38(self) ==
    /\ ~panicked
    /\ ws.th[self].pc = "L38"
    /\ \E build \in Builds :
         IF used_count > N /\ build = "debug"
         THEN panicked' = TRUE /\ UNCHANGED ws
         ELSE /\ UNCHANGED panicked
              /\ ws' = [ws EXCEPT
                         !.th[self].pc = "L39",
                         !.th[self].count =
                             mw_write_count(Len(ws.th[self].data), used_count),
                         !.raced = @ \/ ws.th[Other(self)].pc \in mw_uncommitted]
    /\ UNCHANGED <<buffer, head, tail, used_count, seqvars, thrvars, stk, eq>>

\* n_write, load of tail and the choice of branch
mw_write_L39(self) ==
    LET t == ws.th[self] IN
    /\ ~panicked
    /\ t.pc = "L39"
    /\ IF tail > N
       THEN panicked' = TRUE /\ UNCHANGED ws
       ELSE /\ UNCHANGED panicked
            /\ ws' = [ws EXCEPT !.th[self] = [t EXCEPT
                      !.at = tail,
                      !.i = 0,
                      !.new_at = ts_new_at(tail, t.count),
                      !.pc = IF t.count <= N - tail
                             THEN (IF t.count = 0 THEN "L58" ELSE "L43")
                             ELSE (IF N - tail = 0 THEN "L54" ELSE "L51")]]
    /\ UNCHANGED <<buffer, head, tail, used_count, seqvars, thrvars, stk, eq>>

\* one buffer[idx].store(v, Relaxed) by writer self, which then moves to next
mw_store(self, idx, v, next) ==
    /\ buffer' = [buffer EXCEPT ![idx] = v]
    /\ ws' = [ws EXCEPT !.th[self] = next,
                        !.clobbered = @ \/ idx \in mw_occupied]
    /\ UNCHANGED panicked

\* n_write, no-wrap branch: one store of the loop over 0..write_count
mw_write_L43(self) ==
    LET t == ws.th[self] IN
    /\ ~panicked
    /\ t.pc = "L43"
    /\ IF t.at + t.i \in Slots
       THEN mw_store(self, t.at + t.i, t.data[t.i + 1],
                     [t EXCEPT !.i = t.i + 1,
                               !.pc = IF t.i + 1 = t.count THEN "L58" ELSE "L43"])
       ELSE panicked' = TRUE /\ UNCHANGED <<buffer, ws>>
    /\ UNCHANGED <<head, tail, used_count, seqvars, thrvars, stk, eq>>

\* n_write, wrap branch: one store of the loop over 0..(N - tail)
mw_write_L51(self) ==
    LET t == ws.th[self] IN
    /\ ~panicked
    /\ t.pc = "L51"
    /\ IF t.at + t.i \in Slots
       THEN mw_store(self, t.at + t.i, t.data[t.i + 1],
                     IF t.i + 1 = N - t.at
                     THEN [t EXCEPT !.i = 0, !.pc = "L54"]
                     ELSE [t EXCEPT !.i = t.i + 1])
       ELSE panicked' = TRUE /\ UNCHANGED <<buffer, ws>>
    /\ UNCHANGED <<head, tail, used_count, seqvars, thrvars, stk, eq>>

\* n_write, wrap branch: one store of the loop over 0..new_tail
mw_write_L54(self) ==
    LET t == ws.th[self] IN
    /\ ~panicked
    /\ t.pc = "L54"
    /\ IF t.i \in Slots /\ ts_wrap_src(t.at, t.i) + 1 \in DOMAIN t.data
       THEN mw_store(self, t.i, t.data[ts_wrap_src(t.at, t.i) + 1],
                     [t EXCEPT !.i = t.i + 1,
                               !.pc = IF t.i + 1 = t.new_at THEN "L58" ELSE "L54"])
       ELSE panicked' = TRUE /\ UNCHANGED <<buffer, ws>>
    /\ UNCHANGED <<head, tail, used_count, seqvars, thrvars, stk, eq>>

\* n_write, used_count.fetch_add(write_count, Release): the batch is published
mw_write_L58(self) ==
    LET t == ws.th[self] IN
    /\ ~panicked
    /\ t.pc = "L58"
    /\ used_count' = fetch_add(used_count, t.count)
    /\ ws' = [ws EXCEPT !.th[self].pc = "L59"]
    /\ UNCHANGED <<buffer, head, tail, seqvars, panicked, thrvars, stk, eq>>

\* n_write, tail.store(new_tail, Release) and the return of write_count
mw_write_L59(self) ==
    LET t == ws.th[self] IN
    /\ ~panicked
    /\ t.pc = "L59"
    /\ tail' = t.new_at
    /\ ws' = [ws EXCEPT !.th[self] = [Idle EXCEPT !.data = t.data,
                                                  !.ret = t.count]]
    /\ UNCHANGED <<buffer, head, used_count, seqvars, panicked, thrvars, stk, eq>>

mw_writer(self) ==
    \/ \E data \in mw_batches(self) : mw_write_L34(self, data)
    \/ mw_write_L38(self)
    \/ mw_write_L39(self)
    \/ mw_write_L43(self)
    \/ mw_write_L51(self)
    \/ mw_write_L54(self)
    \/ mw_write_L58(self)
    \/ mw_write_L59(self)

InitMW ==
    /\ AuxInit
    /\ new
    /\ result = <<>>
    /\ last = NoCall
    /\ prev = Summary(NoCall)
    /\ panicked = FALSE
    /\ w = Idle
    /\ r = Idle
    /\ accepted = <<>>
    /\ delivered = <<>>
    /\ heap = <<>>
    /\ ub = FALSE
    /\ prior = [k \in Slots |-> NullPtr]

NextMW == mw_writer(1) \/ mw_writer(2)

SpecMW == InitMW /\ [][NextMW]_vars

\* ---------------------------------------------------- src/src/stack.rs
\* Stack<T> { head: Node<T> }, Node<T> = Option<Box<Content<T>>>. stk.nodes is
\* every Box<Content> allocated so far, by address (its index); a link is an
\* address or None. freed counts how often a box has been released. stk.ref is
\* the reference sequence (top first), stk.pre its value before the last call,
\* stk.popped what the last pop returned (<<>> for None, <<x>> for Some(x)),
\* stk.len the number of live nodes when Drop began, stk.iters the iterations
\* of Drop's loop so far, stk.depth the deepest nesting of box destructors.

None == 0

\* Stack::new()
Stack_new == [pc |-> "live", head |-> None, nodes |-> <<>>, cur |-> None,
              ref |-> <<>>, pre |-> <<>>, op |-> "new", popped |-> <<>>,
              len |-> 0, iters |-> 0, depth |-> 0]

\* what Option::take leaves behind in the link it is called on
takeBug(link) == link
take(link) == None

\* next of the node push builds: self.head.take()
push_nextBug(h) == None
push_next(h) == h

\* the drop glue of Box<Content<T>>: release the box, then drop its next field,
\* which releases the box behind it in a nested call, and so on
RECURSIVE drop_box(_, _)
drop_box(nodes, p) ==
    IF p = None \/ nodes[p].freed > 1 THEN nodes
    ELSE drop_box([nodes EXCEPT ![p].freed = @ + 1], nodes[p].next)

\* how many destructor calls are nested when the box at p is dropped
RECURSIVE nesting(_, _)
nesting(nodes, p) == IF p = None THEN 0 ELSE 1 + nesting(nodes, nodes[p].next)

\* the elements reachable from a link, in order
RECURSIVE walk(_, _)
walk(nodes, p) ==
    IF p = None THEN <<>> ELSE <<nodes[p].elem>> \o walk(nodes, nodes[p].next)

Max(a, b) == IF a >= b THEN a ELSE b

\* the variables no Stack action touches
stack_frame == <<ringvars, ws, eq>>

\* push: a new box whose next is the old head, which becomes the head
push(elem) ==
    /\ stk.pc = "live"
    /\ Len(stk.nodes) < MaxNodes
    /\ stk' = [stk EXCEPT
                !.nodes = Append(@, [elem |-> elem, next |-> push_next(stk.head),
                                     freed |-> 0]),
                !.head = Len(stk.nodes) + 1,
                !.op = "push",
                !.pre = stk.ref,
                !.ref = <<elem>> \o stk.ref]
    /\ UNCHANGED stack_frame

\* pop: head.take(); on Some(node) the head becomes node.next, the element is
\* returned, and the box, its fields moved out, is released
pop ==
    /\ stk.pc = "live"
    /\ LET node == stk.head
           moved == IF node = None THEN stk.nodes
                    ELSE [stk.nodes EXCEPT ![node].next = None]
       IN stk' = [stk EXCEPT
                   !.head = IF node = None THEN take(stk.head)
                            ELSE stk.nodes[node].next,
                   !.popped = IF node = None THEN <<>>
                              ELSE <<stk.nodes[node].elem>>,
                   !.nodes = drop_box(moved, node),
                   !.depth = Max(@, nesting(moved, node)),
                   !.op = "pop",
                   !.pre = stk.ref,
                   !.ref = IF stk.ref = <<>> THEN <<>> ELSE Tail(stk.ref)]
    /\ UNCHANGED stack_frame

\* Drop::drop, line 45: let mut cur_node = self.head.take()
drop_L45 ==
    /\ stk.pc = "live"
    /\ stk' = [stk EXCEPT !.pc = "loop",
                          !.cur = stk.head,
                          !.head = take(stk.head),
                          !.op = "drop",
                          !.len = Len(walk(stk.nodes, stk.head))]
    /\ UNCHANGED stack_frame

\* Drop::drop, lines 46-48: one iteration of while let Some(mut content); the
\* node's next is taken into cur_node and content is dropped at the brace
drop_L46 ==
    /\ stk.pc = "loop"
    /\ stk.cur # None
    /\ LET content == stk.cur
           taken == [stk.nodes EXCEPT ![content].next = take(@)]
       IN stk' = [stk EXCEPT !.cur = stk.nodes[content].next,
                             !.nodes = drop_box(taken, content),
                             !.depth = Max(@, nesting(taken, content)),
                             !.iters = @ + 1]
    /\ UNCHANGED stack_frame

\* Drop::drop, line 46 on None and line 49: the loop ends, drop returns and
\* the field head is dropped in its turn
drop_L49 ==
    /\ stk.pc = "loop"
    /\ stk.cur = None
    /\ stk' = [stk EXCEPT !.pc = "dropped",
                          !.nodes = drop_box(@, stk.head),
                          !.depth = Max(@, nesting(stk.nodes, stk.head))]
    /\ UNCHANGED stack_frame

InitStack ==
    /\ new
    /\ result = <<>>
    /\ last = NoCall
    /\ prev = Summary(NoCall)
    /\ panicked = FALSE
    /\ w = Idle
    /\ r = Idle
    /\ accepted = <<>>
    /\ delivered = <<>>
    /\ heap = <<>>
    /\ ub = FALSE
    /\ prior = [k \in Slots |-> NullPtr]
    /\ ws = NoWriters
    /\ eq = NoLockstep
    /\ stk = Stack_new

NextStack ==
    \/ \E elem \in Values : push(elem)
    \/ pop
    \/ drop_L45
    \/ drop_L46
    \/ drop_L49

SpecStack == InitStack /\ [][NextStack]_vars

\* ------------------------------------------ the three variants side by side
\* One caller makes the same calls, one at a time, on a buffer of each
\* variant: eq.a is the state of a ringbuffer.rs buffer, eq.b of a
\* ringbuffer_ts.rs buffer, eq.c of a ringbuffer_ts_g.rs buffer with its heap.
\* Each record holds the fields of the struct, the caller's output Vec (result)
\* and the count the last call returned (ret). A call is one step here: with a
\* single caller nothing runs between two accesses of a call.

\* ringbuffer.rs n_write as a function of the buffer's state
rb_n_write(s, data) ==
    IF s.used_count > N \/ s.tail > N
    THEN [s EXCEPT !.panicked = TRUE]
    ELSE IF Free(s.used_count) = 0
    THEN [s EXCEPT !.ret = 0]
    ELSE LET write_count == WriteCount(Len(data), s.used_count)
         IN IF WritePanics(s.tail, data, write_count)
            THEN [s EXCEPT
                   !.buffer = WriteSlots(s.buffer, s.tail, data, write_count),
                   !.panicked = TRUE]
            ELSE [s EXCEPT
                   !.buffer = WriteSlots(s.buffer, s.tail, data, write_count),
                   !.used_count = fetch_add(s.used_count, write_count),
                   !.tail = NewTail(s.tail, write_count),
                   !.ret = write_count]

\* ringbuffer.rs n_read
rb_n_read(s) ==
    LET read_count == s.used_count
    IN IF read_count = 0
       THEN [s EXCEPT !.result = Clear(s.result), !.ret = 0]
       ELSE IF s.head > N \/ read_count > N
       THEN [s EXCEPT !.result = Clear(s.result), !.panicked = TRUE]
       ELSE [s EXCEPT !.result = Clear(s.result)
                                  \o ReadSlots(s.buffer, s.head, read_count),
                      !.used_count = fetch_sub(s.used_count, read_count),
                      !.head = NewHead(s.head, read_count),
                      !.ret = read_count]

\* ringbuffer_ts.rs, a store loop: for i in 0..n { buffer[at + i].store(
\* data[from + i]) }
RECURSIVE ts_store_loop(_, _, _, _, _)
ts_store_loop(buf, at, data, from, n) ==
    IF n = 0 THEN buf
    ELSE ts_store_loop([buf EXCEPT ![at] = data[from + 1]],
                       at + 1, data, from + 1, n - 1)

\* ringbuffer_ts.rs, a load loop: for i in at..(at + n) { data.push(
\* buffer[i].load()) }
RECURSIVE ts_load_loop(_, _, _, _)
ts_load_loop(buf, out, at, n) ==
    IF n = 0 THEN out
    ELSE ts_load_loop(buf, Append(out, buf[at]), at + 1, n - 1)

\* ringbuffer_ts.rs n_write run by a single caller
ts_n_write(s, data) ==
    IF s.used_count > N
    THEN [s EXCEPT !.panicked = TRUE]
    ELSE IF N - s.used_count = 0
    THEN [s EXCEPT !.ret = 0]
    ELSE LET write_count == ts_write_count(Len(data), s.used_count)
             t == s.tail
             new_tail == ts_new_at(t, write_count)
         IN IF t > N
            THEN [s EXCEPT !.panicked = TRUE]
            ELSE [s EXCEPT
                   !.buffer =
                       IF write_count <= N - t
                       THEN ts_store_loop(s.buffer, t, data, 0, write_count)
                       ELSE ts_store_loop(
                                ts_store_loop(s.buffer, t, data, 0, N - t),
                                0, data, ts_wrap_src(t, 0), new_tail),
                   !.used_count = fetch_add(s.used_count, write_count),
                   !.tail = new_tail,
                   !.ret = write_count]

\* ringbuffer_ts.rs n_read run by a single caller
ts_n_read(s) ==
    LET read_count == s.used_count
        h == s.head
        new_head == ts_new_at(h, read_count)
    IN IF read_count = 0
       THEN [s EXCEPT !.result = Clear(s.result), !.ret = 0]
       ELSE IF h > N
       THEN [s EXCEPT !.result = Clear(s.result), !.panicked = TRUE]
       ELSE [s EXCEPT
              !.result =
                  IF read_count <= N - h
                  THEN ts_load_loop(s.buffer, Clear(s.result), h, read_count)
                  ELSE ts_load_loop(s.buffer,
                           ts_load_loop(s.buffer, Clear(s.result), h, N - h),
                           0, new_head),
              !.used_count = ts_fetch_sub(s.used_count, read_count),
              !.head = new_head,
              !.ret = read_count]

\* ringbuffer_ts_g.rs, a store loop: each iteration boxes data[from + i] and
\* stores the raw pointer into buffer[at + i]
RECURSIVE g_store_loop(_, _, _, _, _)
g_store_loop(s, at, data, from, n) ==
    IF n = 0 THEN s
    ELSE LET boxed == g_box_new(s.heap, data[from + 1])
         IN g_store_loop([s EXCEPT !.heap = boxed,
                                   !.buffer[at] = Len(boxed)],
                         at + 1, data, from + 1, n - 1)

\* ringbuffer_ts_g.rs, a load loop: each iteration loads buffer[i] and pushes
\* the value behind the pointer; the loop of the no-wrap branch takes the box
\* back with Box::from_raw, the loops of the wrap branch do not
RECURSIVE g_load_loop(_, _, _, _)
g_load_loop(s, at, n, wrapped) ==
    IF n = 0 THEN s
    ELSE LET p == s.buffer[at]
         IN IF g_valid(s.heap, p)
            THEN g_load_loop([s EXCEPT !.result = Append(@, s.heap[p].val),
                                       !.heap = g_after_read(@, p, wrapped)],
                             at + 1, n - 1, wrapped)
            ELSE [s EXCEPT !.ub = TRUE]

\* ringbuffer_ts_g.rs n_write run by a single caller
g_n_write(s, data) ==
    IF s.used_count > N
    THEN [s EXCEPT !.panicked = TRUE]
    ELSE IF N - s.used_count = 0
    THEN [s EXCEPT !.ret = 0]
    ELSE LET write_count == g_write_count(Len(data), s.used_count)
             t == s.tail
             new_tail == g_new_at(t, write_count)
         IN IF t > N
            THEN [s EXCEPT !.panicked = TRUE]
            ELSE [(IF write_count <= N - t
                   THEN g_store_loop(s, t, data, 0, write_count)
                   ELSE g_store_loop(g_store_loop(s, t, data, 0, N - t),
                                     0, data, N - t, new_tail))
                  EXCEPT !.used_count = fetch_add(s.used_count, write_count),
                         !.tail = new_tail,
                         !.ret = write_count]

\* ringbuffer_ts_g.rs n_read run by a single caller
g_n_read(s) ==
    LET read_count == s.used_count
        h == s.head
        new_head == g_new_at(h, read_count)
        cleared == [s EXCEPT !.result = Clear(s.result)]
    IN IF read_count = 0
       THEN [cleared EXCEPT !.ret = 0]
       ELSE IF h > N
       THEN [cleared EXCEPT !.panicked = TRUE]
       ELSE [(IF read_count <= N - h
              THEN g_load_loop(cleared, h, read_count, FALSE)
              ELSE g_load_loop(g_load_loop(cleared, h, N - h, TRUE),
                               0, new_head, TRUE))
             EXCEPT !.used_count = fetch_sub(s.used_count, read_count),
                    !.head = new_head,
                    !.ret = read_count]

\* the three buffers after new(), the caller's output Vec holding out
eq_new(out) ==
    [pc |-> "new", data |-> <<>>,
     a |-> [buffer |-> [k \in Slots |-> DefaultT], head |-> 0, tail |-> 0,
            used_count |-> 0, result |-> out, ret |-> 0, panicked |-> FALSE],
     b |-> [buffer |-> [k \in Slots |-> 0], head |-> 0, tail |-> 0,
            used_count |-> 0, result |-> out, ret |-> 0, panicked |-> FALSE],
     c |-> [buffer |-> [k \in Slots |-> NullPtr], head |-> 0, tail |-> 0,
            used_count |-> 0, result |-> out, ret |-> 0, panicked |-> FALSE,
            heap |-> <<>>, ub |-> FALSE]]

\* a call on one of the three buffers panicked: the caller makes no more calls
eq_panicked == eq.a.panicked \/ eq.b.panicked \/ eq.c.panicked \/ eq.c.ub

\* the variables the side-by-side run does not touch
eq_frame == <<ringvars, ws, stk>>

\* the same n_write(&data) on each buffer; the bound is on the elements
\* offered in total
eq_write(data) ==
    /\ ~eq_panicked
    /\ Len(eq.c.heap) + Len(data) <= MaxTotal
    /\ eq' = [eq EXCEPT !.pc = "write", !.data = data,
                        !.a = rb_n_write(eq.a, data),
                        !.b = ts_n_write(eq.b, data),
                        !.c = g_n_write(eq.c, data)]
    /\ UNCHANGED eq_frame

\* the same n_read(&mut result) on each buffer
eq_read ==
    /\ ~eq_panicked
    /\ eq' = [eq EXCEPT !.pc = "read", !.data = <<>>,
                        !.a = rb_n_read(eq.a),
                        !.b = ts_n_read(eq.b),
                        !.c = g_n_read(eq.c)]
    /\ UNCHANGED eq_frame

InitEQ ==
    /\ new
    /\ result = <<>>
    /\ last = NoCall
    /\ prev = Summary(NoCall)
    /\ panicked = FALSE
    /\ w = Idle
    /\ r = Idle
    /\ accepted = <<>>
    /\ delivered = <<>>
    /\ heap = <<>>
    /\ ub = FALSE
    /\ prior = [k \in Slots |-> NullPtr]
    /\ ws = NoWriters
    /\ stk = NoStack
    /\ eq \in {eq_new(out) : out \in StaleResults}

NextEQ ==
    \/ \E data \in Batches : eq_write(data)
    \/ eq_read

SpecEQ == InitEQ /\ [][NextEQ]_vars

\* ------------------------------------------ sequential use and SPSC use
\* A buffer is used by one caller (ringbuffer.rs, whose calls take &mut self)
\* or by one writer thread and one reader thread (ringbuffer_ts.rs); eq tells
\* which.
Sequential == [pc |-> "sequential"]
SPSC == [pc |-> "spsc"]

InitUse ==
    /\ new
    /\ last = NoCall
    /\ prev = Summary(NoCall)
    /\ panicked = FALSE
    /\ w = Idle
    /\ accepted = <<>>
    /\ delivered = <<>>
    /\ heap = <<>>
    /\ ub = FALSE
    /\ prior = [k \in Slots |-> NullPtr]
    /\ ws = NoWriters
    /\ stk = NoStack
    /\ \/ /\ eq = Sequential
          /\ result \in StaleResults
          /\ r = Idle
       \/ /\ eq = SPSC
          /\ result = <<>>
          /\ r \in {[Idle EXCEPT !.data = stale] : stale \in StaleResults}

NextUse ==
    \/ eq = Sequential /\ Next
    \/ eq = SPSC /\ NextTS

SpecUse == InitUse /\ [][NextUse]_vars

\* ------------------------------------------- claims on src/src/ringbuffer.rs

\* the slots a batch of `count` elements starting at index t lands in; an index
\* of N names slot 0
Landing(t, count) == {(t + i) % N : i \in 0..(count - 1)}

\* C4: n_write(data) returns min(len(data), N - used_count), used_count being
\* the value before the call; it returns 0 when used_count = N; it stores the
\* prefix data[0..write_count] in order into the slots from tail on (around the
\* end of the array), changes no other slot, and adds write_count to
\* used_count; the call returns, it does not panic.
C4_WriteResult ==
    last.op = "write" =>
        LET p == last.pre
            room == N - p.used_count
            count == IF Len(last.data) <= room THEN Len(last.data) ELSE room
        IN  /\ last.ret = count
            /\ (p.used_count = N => last.ret = 0)
            /\ used_count = p.used_count + count
            /\ \A i \in 0..(count - 1) : buffer[(p.tail + i) % N] = last.data[i + 1]
            /\ \A k \in Slots \ Landing(p.tail, count) : buffer[k] = p.buffer[k]
            /\ ~panicked

\* C5: n_read returns the used_count it found; on return the output holds
\* exactly the occupied elements, oldest first, whatever it held before the
\* call; used_count is 0 afterwards.
C5_ReadResult ==
    last.op = "read" =>
        LET p == last.pre
        IN  /\ last.ret = p.used_count
            /\ result = Occupied(p.buffer, p.head, p.used_count)
            /\ Len(result) = last.ret
            /\ used_count = 0
            /\ ~panicked

\* C5 witness: a read into an output that held prior elements, more of them
\* than the read returned
C5_Witness ==
    /\ last.op = "read"
    /\ last.ret > 0
    /\ Len(last.pre.result) > last.ret
    /\ result # SubSeq(last.pre.result, 1, last.ret)

\* C6: n_write on a full buffer returns 0 and changes no slot, nor head, tail or
\* used_count; the n_read after it returns the N elements that were occupied,
\* in order.
C6_WriteOnFull ==
    /\ (last.op = "write" /\ last.pre.used_count = N) =>
            /\ last.ret = 0
            /\ buffer = last.pre.buffer
            /\ head = last.pre.head
            /\ tail = last.pre.tail
            /\ used_count = last.pre.used_count
    /\ (last.op = "read" /\ prev.op = "write" /\ Len(prev.occ) = N) =>
            /\ prev.ret = 0
            /\ last.ret = N
            /\ result = prev.occ

\* C6 witness: a read right after a non-empty write that a full buffer refused
C6_Witness ==
    /\ last.op = "read"
    /\ prev.op = "write"
    /\ Len(prev.occ) = N
    /\ prev.len > 0
    /\ last.pre.head \in 1..(N - 1)

\* C7: n_read on an empty buffer returns 0, leaves the output empty and changes
\* no slot, nor head, tail or used_count; a read that follows a read, with at
\* most a write that accepted nothing in between, returns 0.
C7_ReadOnEmpty ==
    /\ (last.op = "read" /\ last.pre.used_count = 0) =>
            /\ last.ret = 0
            /\ result = <<>>
            /\ buffer = last.pre.buffer
            /\ head = last.pre.head
            /\ tail = last.pre.tail
            /\ used_count = 0
    /\ (last.op = "read" /\ prev.op = "read") => (last.ret = 0 /\ result = <<>>)
    /\ (last.op = "read" /\ prev.op = "write" /\ prev.ret = 0 /\ Len(prev.occ) = 0) =>
            (last.ret = 0 /\ result = <<>>)

\* C7 witness: a read of a buffer that an earlier read had drained
C7_Witness ==
    /\ last.op = "read"
    /\ prev.op = "read"
    /\ prev.ret > 0
    /\ last.pre.result # <<>>

\* C8: a write followed by n_read returns the elements occupied before the
\* write followed by the elements the write accepted, in order; a write of
\* k <= free elements accepts all k. This holds from every tail position.
C8_WrapRoundTrip ==
    (last.op = "read" /\ prev.op = "write") =>
        /\ (prev.len <= N - Len(prev.occ) => Len(prev.moved) = prev.len)
        /\ prev.ret = Len(prev.moved)
        /\ result = prev.occ \o prev.moved
        /\ last.ret = Len(prev.occ) + prev.ret

\* C8 witness: the read after a write that crossed the end of the array while
\* older elements were still occupied
C8_Witness ==
    /\ last.op = "read"
    /\ prev.op = "write"
    /\ Len(prev.occ) > 0
    /\ prev.len = prev.ret
    /\ last.pre.tail > 0
    /\ last.pre.tail < prev.ret
    /\ result = prev.occ \o prev.moved

\* C9 as claimed: head and tail are always in [0, N).
C9_IndexBelowN ==
    /\ head \in 0..(N - 1)
    /\ tail \in 0..(N - 1)

\* C9 as amended: head and tail are always in [0, N]; the value N is taken
\* after a transfer that ends exactly at slot N-1.
C9_IndexAtMostN ==
    /\ head \in 0..N
    /\ tail \in 0..N

\* C9 witness: both indices have the value N
C9_Witness ==
    /\ tail = N
    /\ head = N
    /\ last.op = "read"

\* ---------------------------------------- claims on src/src/ringbuffer_ts.rs

IsPrefix(s, t) == Len(s) <= Len(t) /\ SubSeq(t, 1, Len(s)) = s

\* no call is in flight
Quiescent == w.pc = "idle" /\ r.pc = "idle"

C2_Capacity == used_count \in 0..N

\* C2 witness: the writer has just raised used_count to N while the reader is
\* about to subtract the count it copied out
C2_Witness ==
    /\ used_count = N
    /\ w.pc = "L59"
    /\ w.count > 0
    /\ r.pc = "L87"

\* C10 as claimed: when no call is in flight, tail = (head + used_count) mod N.
C10_QuiescentEquation ==
    Quiescent => tail = (head + used_count) % N

\* C10 as amended: when no call is in flight, tail and head + used_count are
\* equal modulo N (tail itself may be N).
C10_QuiescentEquationModN ==
    Quiescent => tail % N = (head + used_count) % N

\* C10 witness: no call in flight, elements occupied, and the occupied region
\* crosses the end of the array
C10_Witness ==
    /\ Quiescent
    /\ used_count > 0
    /\ head < N
    /\ head + used_count > N
    /\ Len(delivered) > 0

\* the most steps of its own a thread that is inside a call still takes before
\* the call returns: the accesses left of its loops, the update of used_count
\* and the store of the index
StepsLeft(t) ==
    CASE t.pc \in {"L38"} -> N + 4
      [] t.pc \in {"L39", "L70"} -> N + 3
      [] t.pc \in {"L43", "L74"} -> (t.count - t.i) + 2
      [] t.pc \in {"L51", "L80"} -> ((N - t.at) - t.i) + t.new_at + 2
      [] t.pc \in {"L54", "L83"} -> (t.new_at - t.i) + 2
      [] t.pc \in {"L58", "L87"} -> 2
      [] t.pc \in {"L59", "L88"} -> 1
      [] OTHER -> 0

\* C11: a call never waits for the other thread and returns within N + 5 steps
\* of its own: whatever state the other thread is in, a thread inside a call
\* can take its next step, at most N + 4 of its steps are left, and each of its
\* steps either returns or leaves fewer steps.
C11_NonBlocking ==
    /\ [](/\ w.pc # "idle" => (ENABLED ts_writer /\ StepsLeft(w) \in 1..(N + 4))
          /\ r.pc # "idle" => (ENABLED ts_reader /\ StepsLeft(r) \in 1..(N + 3)))
    /\ [][/\ (w' # w /\ w.pc # "idle") =>
                (w'.pc = "idle" \/ StepsLeft(w') < StepsLeft(w))
          /\ (r' # r /\ r.pc # "idle") =>
                (r'.pc = "idle" \/ StepsLeft(r') < StepsLeft(r))]_vars

\* C11 witness: a write of a non-empty batch has returned 0 from a full buffer
\* while the reader, inside a call that found the buffer empty before, has not
\* moved
C11_Witness ==
    /\ w.pc = "idle"
    /\ w.ret = 0
    /\ Len(w.data) > 0
    /\ used_count = N
    /\ r.pc = "idle"
    /\ r.ret = 0
    /\ Len(delivered) > 0

\* slots the writer's call in flight stores into: write_count slots from the
\* tail it loaded, until its fetch_add publishes them
WriterTargets ==
    IF w.pc \in {"L43", "L51", "L54", "L58"}
    THEN {(w.at + k) % N : k \in 0..(w.count - 1)} ELSE {}

\* slots the reader's call in flight copies out of
ReaderSources ==
    IF r.pc \in {"L74", "L80", "L83", "L87"}
    THEN {(r.at + k) % N : k \in 0..(r.count - 1)} ELSE {}

\* slots holding accepted elements the reader has not yet released: between
\* its fetch_sub and its store to head the reader has given back the slots it
\* copied out of, and the first unreleased slot is its new_head
Unread ==
    LET done == r.pc = "L88"
        first == IF done THEN r.new_at ELSE head
        left == Len(accepted) - Len(delivered) - (IF done THEN r.count ELSE 0)
    IN {(first + k) % N : k \in 0..(left - 1)}

\* C17: the writer under-commits, it never overflows. From its load of
\* used_count to its fetch_add, write_count is at most the free space
\* N - used_count of the moment (the reader can only have lowered used_count
\* since); the slots the call stores into hold no accepted element that is
\* still to be returned, and are disjoint from the slots the reader is copying
\* out of.
C17_UnderCommit ==
    /\ w.pc \in {"L39", "L43", "L51", "L54", "L58"} => w.count <= N - used_count
    /\ WriterTargets \cap Unread = {}
    /\ WriterTargets \cap ReaderSources = {}
    /\ ReaderSources \subseteq Unread

\* both calls in the middle of their loops, the writer having committed to less
\* than it was offered and to less than is free by now
C17_Witness ==
    /\ w.pc \in {"L43", "L51", "L54"}
    /\ r.pc \in {"L74", "L80", "L83"}
    /\ w.count < Len(w.data)
    /\ w.count < N - used_count

\* C18: single-mutator frame. A step of n_write (the writer's record changes)
\* leaves head alone and never lowers used_count; a step of n_read (the
\* reader's record changes) leaves tail and every slot alone and never raises
\* used_count. A call returns its write_count / read_count, and no step of a
\* call whose count is 0 changes the value of head, tail or used_count.
C18_SingleMutatorFrame ==
    [][/\ w' # w =>
            /\ head' = head
            /\ used_count' >= used_count
       /\ r' # r =>
            /\ tail' = tail
            /\ buffer' = buffer
            /\ used_count' <= used_count
       /\ (w' # w /\ w'.pc = "idle") => w'.ret = w.count
       /\ (r' # r /\ r'.pc = "idle") => r'.ret = r.count
       /\ (w' # w /\ w.count = 0) => UNCHANGED <<head, tail, used_count>>
       /\ (r' # r /\ r.count = 0) => UNCHANGED <<head, tail, used_count>>]_vars

\* the writer's last call returned 0 on a full buffer, and the reader has since
\* subtracted what it copied out and is about to move head
C18_Witness ==
    /\ w.pc = "idle"
    /\ w.ret = 0
    /\ Len(w.data) > 0
    /\ r.pc = "L88"
    /\ r.count = N
    /\ used_count = 0

\* -------------------------------------- claims on src/src/ringbuffer_ts_g.rs

\* box k was allocated for the k-th element stored, which is the k-th element
\* published once its batch is published
Released == {p \in DOMAIN heap : ~heap[p].live}

\* C3: every box allocated by n_write is released exactly once, by the n_read
\* that returns its element: whenever the reader is not inside a call, the
\* boxes released are exactly the boxes of the elements returned so far, and no
\* released or null pointer was ever used.
C3_ExactlyOnceRelease ==
    /\ ~ub
    /\ r.pc = "idle" => Released = 1..Len(delivered)

\* C12: once the RingBuffer is destroyed, every box a slot of the occupied
\* range points to has been released.
C12_DropReleasesOccupied ==
    w.pc = "dropped" =>
        \A k \in 0..(used_count - 1) : ~g_valid(heap, buffer[(head + k) % N])

\* C16: pointer discipline of the boxed variant with one writer thread and one
\* reader thread. No pointer n_read dereferences or hands to Box::from_raw is
\* null or refers to a released box, and every pointer it loads from a slot is
\* the one n_write stored there for the element being read: what the reader
\* has collected so far continues what it delivered before as a prefix of the
\* accepted elements.
C16_PointerDiscipline ==
    /\ ~ub
    /\ IsPrefix(IF r.pc \in {"L82", "L92", "L97", "L102", "L103"}
                THEN delivered \o r.data ELSE delivered,
                accepted)

\* ------------------- claims on src/src/ringbuffer_ts.rs with two writers

\* C13: the single-writer restriction is what keeps the capacity. With two
\* threads in n_write, used_count can exceed N and a store can land on a
\* published, unread slot; used_count exceeds N only after both writers took
\* their write_count load before either did its fetch_add, and a published
\* slot is overwritten only after two calls overlapped. Calls that never
\* overlap keep used_count <= N and overwrite nothing.
C13_TwoWritersBreakCapacity ==
    /\ used_count > N => ws.raced
    /\ ws.clobbered => ws.concurrent
    /\ ~ws.concurrent => used_count <= N

\* both writers loaded used_count before either committed, the second commit
\* took used_count past N, and a published slot was overwritten on the way
C13_Witness ==
    /\ ws.raced
    /\ used_count > N
    /\ ws.clobbered
    /\ ws.th[1].ret > 0
    /\ ws.th[2].ret > 0

\* ------------------------------------------------ claims on src/src/stack.rs

\* C14: the Stack is a reference sequence with push and pop at the same end.
\* While the Stack is alive the elements linked from its head are the
\* reference sequence; pop returns Some(x) with x the most recently pushed
\* element not yet popped and removes it, and returns None exactly when the
\* Stack holds no element; push puts its element on top.
C14_StackLIFO ==
    /\ stk.pc = "live" => walk(stk.nodes, stk.head) = stk.ref
    /\ stk.op = "pop" =>
         /\ stk.popped = <<>> <=> stk.pre = <<>>
         /\ stk.pre # <<>> => stk.popped = <<Head(stk.pre)>>
         /\ stk.pre # <<>> => stk.ref = Tail(stk.pre)
    /\ stk.op = "push" => Tail(stk.ref) = stk.pre /\ Len(stk.ref) = Len(stk.pre) + 1

\* a pop that returned the newer of two elements, the older one still there,
\* after earlier pushes and pops (as in test basics)
C14_Witness ==
    /\ stk.pc = "live"
    /\ stk.op = "pop"
    /\ stk.popped = <<2>>
    /\ stk.ref = <<1>>
    /\ Len(stk.nodes) > 2

\* C15: Drop is iterative. Every iteration of its loop takes the node's next
\* link before the node is released, so no box is released twice, every box
\* is released with an empty next (destructors never nest deeper than 1), the
\* iterations done plus the nodes still linked from cur_node is the length the
\* Stack had, and when drop has returned the loop ran exactly that many times
\* and every box ever allocated has been released exactly once.
C15_IterativeDrop ==
    /\ \A p \in DOMAIN stk.nodes : stk.nodes[p].freed <= 1
    /\ stk.depth <= 1
    /\ stk.pc = "loop" =>
         /\ stk.head = None
         /\ stk.iters + Len(walk(stk.nodes, stk.cur)) = stk.len
    /\ stk.pc = "dropped" =>
         /\ stk.head = None
         /\ stk.iters = stk.len
         /\ \A p \in DOMAIN stk.nodes : stk.nodes[p].freed = 1

\* a Stack of three nodes has been dropped, after a pop
C15_Witness ==
    /\ stk.pc = "dropped"
    /\ stk.len > 2
    /\ stk.iters = stk.len
    /\ Len(stk.nodes) > stk.len

\* ------------------------------- claims on the three variants side by side

\* what a caller can see of a buffer: the count returned, the output Vec, and
\* the three counters
Observable(s) == <<s.ret, s.result, s.head, s.tail, s.used_count, s.panicked>>

\* C19: after every call of the same sequence of n_write / n_read calls by one
\* caller, the inline-copy, the atomic-scalar and the boxed-pointer buffer have
\* returned the same count, hold the same output batch and the same head, tail
\* and used_count; none has panicked and the boxed one has used no bad pointer.
C19_VariantEquivalence ==
    /\ Observable(eq.a) = Observable(eq.b)
    /\ Observable(eq.b) = Observable(eq.c)
    /\ ~eq.a.panicked
    /\ ~eq.c.ub

\* ------------------------------- claims on sequential use and SPSC use

\* the ranges a sequential call used lie within [0, N]
RangesOfLastCall ==
    LET p == last.pre
        write_count == Min(Len(last.data), N - p.used_count)
        read_count == p.used_count
    IN  /\ last.op = "write" /\ p.used_count < N =>
            IF write_count <= N - p.tail
            THEN p.tail + write_count \in 0..N
            ELSE p.tail \in 0..N /\ write_count - (N - p.tail) \in 0..N
        /\ last.op = "read" /\ read_count > 0 =>
            IF read_count <= N - p.head
            THEN p.head + read_count \in 0..N
            ELSE p.head \in 0..N /\ read_count - (N - p.head) \in 0..N

\* the slot and the element of data the next access of a thread's loop uses
\* exist
IndicesOfThreads ==
    /\ w.pc \in {"L43", "L51"} =>
            (w.at + w.i \in Slots /\ w.i + 1 \in DOMAIN w.data)
    /\ w.pc = "L54" =>
            (w.i \in Slots /\ (N - w.at) + w.i + 1 \in DOMAIN w.data)
    /\ r.pc \in {"L74", "L80"} => r.at + r.i \in Slots
    /\ r.pc = "L83" => r.i \in Slots

\* C20: slot indices stay in bounds, in sequential use and in SPSC use.
\* used_count, head and tail never exceed N, so N - used_count, N - tail and
\* N - head never underflow; every range a sequential call uses lies within
\* [0, N]; every slot a thread's loop stores to or loads from is in [0, N-1];
\* and no call panics on an index or a subtraction: the one panic there is, is
\* the length check of copy_from_slice in a cut, wrapping n_write of
\* ringbuffer.rs (C4).
C20_IndicesInBounds ==
    /\ used_count \in 0..N
    /\ head \in 0..N
    /\ tail \in 0..N
    /\ eq = Sequential => RangesOfLastCall
    /\ eq = SPSC => IndicesOfThreads
    /\ panicked =>
            /\ eq = Sequential
            /\ last.op = "write"
            /\ WritePanics(last.pre.tail, last.data,
                           WriteCount(Len(last.data), last.pre.used_count))

\* the writer thread enters the second loop of the wrap branch from tail = N
\* while the reader thread is about to load the last slot of the array
C20_Witness ==
    /\ eq = SPSC
    /\ w.pc = "L54"
    /\ w.at = N
    /\ r.pc = "L74"
    /\ r.at + r.i = N - 1

\* ------------------------------------------- claims on fair SPSC scheduling

\* every element accepted so far has been returned, in the order of acceptance
AllReturned == delivered = accepted

\* every element accepted by an n_write call is eventually returned: delivered
\* grows only by appending and accepted is its source, so an element accepted
\* before a state in which AllReturned holds has been returned by then
EventuallyReturned == []<>AllReturned

\* the writer's latest call was given a non-empty batch
NonEmptyCall == w.data # <<>>

\* the latest call with a non-empty batch found the buffer full and returned 0
Refused == w.pc = "idle" /\ w.data # <<>> /\ w.ret = 0

\* a writer that goes on calling with non-empty batches (it never turns to
\* an empty one) eventually has a call that returns more than 0
EventuallyAccepted ==
    NonEmptyCall ~> ((w.pc = "idle" /\ w.ret > 0) \/ ~NonEmptyCall)

====
